---- MODULE Spec2Model ----
(***************************************************************************)
(* Descriptor checksum (src/descriptor/checksum.rs) and the address        *)
(* validator chain (src/wallet/address_validator.rs).                      *)
(*                                                                         *)
(* A Rust char is modelled by its Unicode scalar value, a &str by the      *)
(* sequence of its chars, a u64 by the set of the indices (0..63) of its   *)
(* one bits, so that shifts, masks and xors act on all 64 bits, and an     *)
(* Option by a set of at most one element.  get_checksum is modelled step  *)
(* by step: one action per half of a loop iteration, per flush feed and    *)
(* per rendered character; GetChecksum is the same code as one function.   *)
(***************************************************************************)
EXTENDS Integers, Sequences, FiniteSets, TLC

VARIABLES
    desc,       \* the argument of get_checksum, a sequence of chars
    pc,         \* position in get_checksum
    i,          \* 1-based index of the next char the for loop takes
    c,          \* polynomial accumulator (u64)
    cls,        \* class accumulator
    clscount,   \* class counter
    pos,        \* Option: the position found for the last char looked up
    flushed,    \* iterations of (0..8) done on line 80
    j,          \* loop variable of the rendering loop, line 84
    chars,      \* the Vec of checksum chars being built
    result,     \* what get_checksum returned, once it has
    trace,      \* history: the poly_mod calls and the final xor, in order
    validators, \* the wallet's attached address validators, in order
    gen,        \* the address generation in progress or finished, if any
    polled      \* history: the validators polled by the generation, in order

csvars == << desc, pc, i, c, cls, clscount, pos, flushed, j, chars, result, trace >>
wvars == << validators, gen, polled >>
vars == << csvars, wvars >>

-----------------------------------------------------------------------------
(* Bounds of the model *)

\* longest descriptor drawn from SampleChars
MaxLen == 4
\* most validators attached to the wallet
MaxValidators == 3

-----------------------------------------------------------------------------
(* u64 arithmetic *)

\* width of the accumulator's type
U64_BITS == 64

BitIdx == 0 .. (U64_BITS - 1)

\* the u64 of a natural number below 2^31
U64Of(n) == {k \in 0 .. 30 : (n \div 2 ^ k) % 2 = 1}

\* the u64 written as a sequence of hexadecimal digits, most significant first
HexU64(h) ==
    {k \in BitIdx : k \div 4 < Len(h) /\ (h[Len(h) - (k \div 4)] \div 2 ^ (k % 4)) % 2 = 1}

\* a >> n
Shr(a, n) == {k - n : k \in {m \in a : m >= n}}

\* a << n; the bits shifted out of the 64 are dropped
Shl(a, n) == {k + n : k \in {m \in a : m + n < U64_BITS}}

\* a & b
And(a, b) == a \cap b

\* a ^ b
Xor(a, b) == (a \ b) \cup (b \ a)

\* a > 0
NonZero(a) == a # {}

\* the number a u64 below 2^31 holds (`as usize`)
RECURSIVE NatOf(_)
NatOf(a) ==
    IF a = {} THEN 0
    ELSE LET k == CHOOSE x \in a : TRUE IN 2 ^ k + NatOf(a \ {k})

\* whether a u64 is below 2^n
Below(a, n) == \A k \in a : k < n

-----------------------------------------------------------------------------
(* src/descriptor/checksum.rs *)

\* "0123456789()[],'/*abcdefgh@:$%{}IJKLMNOPQRSTUVWXYZ&+-.;<=>?!^_|~
\*  ijklmnopqrstuvwxyzABCDEFGH`#\"\\ "
INPUT_CHARSET ==
    <<  48,  49,  50,  51,  52,  53,  54,  55,  56,  57,  40,  41,  91,  93,  44,  39,
        47,  42,  97,  98,  99, 100, 101, 102, 103, 104,  64,  58,  36,  37, 123, 125,
        73,  74,  75,  76,  77,  78,  79,  80,  81,  82,  83,  84,  85,  86,  87,  88,
        89,  90,  38,  43,  45,  46,  59,  60,  61,  62,  63,  33,  94,  95, 124, 126,
       105, 106, 107, 108, 109, 110, 111, 112, 113, 114, 115, 116, 117, 118, 119, 120,
       121, 122,  65,  66,  67,  68,  69,  70,  71,  72,  96,  35,  34,  92,  32 >>

\* "qpzry9x8gf2tvdw0s3jn54khce6mua7l"
CHECKSUM_CHARSET ==
    << 113, 112, 122, 114, 121,  57, 120,  56, 103, 102,  50, 116, 118, 100, 119,  48,
       115,  51, 106, 110,  53,  52, 107, 104,  99, 101,  54, 109, 117,  97,  55, 108 >>

\* the positions, counted from 0, at which ch occurs in s
Occurrences(s, ch) == {k \in 0 .. (Len(s) - 1) : s[k + 1] = ch}

\* Find with a missing char taken for the first one, instead of None
Find_Lenient(s, ch) ==
    IF Occurrences(s, ch) = {} THEN {0}
    ELSE {k \in Occurrences(s, ch) : \A m \in Occurrences(s, ch) : k <= m}

\* Find counting positions from 1
Find_OneBased(s, ch) ==
    {k + 1 : k \in {n \in Occurrences(s, ch) : \A m \in Occurrences(s, ch) : n <= m}}

\* str::find(char): the index of the first occurrence, or None.  Every char
\* of both charsets is ASCII, so byte offsets and char indices coincide.
Find(s, ch) == {k \in Occurrences(s, ch) : \A m \in Occurrences(s, ch) : k <= m}

\* Iterator::nth(n) on s.chars(): the n-th char, counting from 0, or None
Nth(s, n) == IF n < Len(s) THEN {s[n + 1]} ELSE {}

\* the generator constants of poly_mod and its mask
MASK35 == HexU64(<< 7, 15, 15, 15, 15, 15, 15, 15, 15 >>)           \* 0x7ffffffff
GEN0 == HexU64(<< 15, 5, 13, 14, 14, 5, 1, 9, 8, 9 >>)              \* 0xf5dee51989
GEN1 == HexU64(<< 10, 9, 15, 13, 12, 10, 3, 3, 1, 2 >>)             \* 0xa9fdca3312
GEN2 == HexU64(<< 1, 11, 10, 11, 1, 0, 14, 3, 2, 13 >>)             \* 0x1bab10e32d
GEN3 == HexU64(<< 3, 7, 0, 6, 11, 1, 6, 7, 7, 10 >>)                \* 0x3706b1677a
GEN4 == HexU64(<< 6, 4, 4, 13, 6, 2, 6, 15, 15, 13 >>)              \* 0x644d626ffd

\* the top bits of the accumulator: let c0 = c >> 35
TopOf(a) == Shr(a, 35)

\* the literals 1, 2, 4, 8, 16 that pick the bits of c0
BIT0 == U64Of(1)
BIT1 == U64Of(2)
BIT2 == U64Of(4)
BIT3 == U64Of(8)
BIT4 == U64Of(16)

\* c0 & m > 0
Tap(c0, m) == NonZero(And(c0, m))

\* poly_mod without the mask: (c << 5) ^ val
PolyMod_Unmasked(a, val) ==
    LET c0 == TopOf(a)
        s0 == Xor(Shl(a, 5), U64Of(val))
        s1 == IF Tap(c0, BIT0) THEN Xor(s0, GEN0) ELSE s0
        s2 == IF Tap(c0, BIT1) THEN Xor(s1, GEN1) ELSE s1
        s3 == IF Tap(c0, BIT2) THEN Xor(s2, GEN2) ELSE s2
        s4 == IF Tap(c0, BIT3) THEN Xor(s3, GEN3) ELSE s3
        s5 == IF Tap(c0, BIT4) THEN Xor(s4, GEN4) ELSE s4
    IN  s5

\* fn poly_mod(mut c: u64, val: u64) -> u64
PolyMod(a, val) ==
    LET c0 == TopOf(a)
        s0 == Xor(Shl(And(a, MASK35), 5), U64Of(val))
        s1 == IF Tap(c0, BIT0) THEN Xor(s0, GEN0) ELSE s0
        s2 == IF Tap(c0, BIT1) THEN Xor(s1, GEN1) ELSE s1
        s3 == IF Tap(c0, BIT2) THEN Xor(s2, GEN2) ELSE s2
        s4 == IF Tap(c0, BIT3) THEN Xor(s3, GEN3) ELSE s3
        s5 == IF Tap(c0, BIT4) THEN Xor(s4, GEN4) ELSE s4
    IN  s5

\* the locals of get_checksum at its start: lines 61-63
Start == [c |-> U64Of(1), cls |-> 0, clscount |-> 0]

\* the class taken as pos >> 6
Class_Shift6(p) == p \div 64

\* pos & 31 and pos >> 5 of a position, which is far below 2^31
Low5(p) == p % 32
Class(p) == p \div 32

\* lines 68-70: feed the value of the char at position p, pack its class
Feed(s, p) ==
    [c |-> PolyMod(s.c, Low5(p)), cls |-> s.cls * 3 + Class(p), clscount |-> s.clscount + 1]

\* the packed classes fed after two chars
GroupFull_Two(n) == n = 2

\* whether the loop feeds the packed classes now: if clscount == 3
GroupFull(n) == n = 3

\* the counter reset without the class accumulator
Group_KeepCls(s) ==
    IF GroupFull(s.clscount)
    THEN [c |-> PolyMod(s.c, s.cls), cls |-> s.cls, clscount |-> 0]
    ELSE s

\* lines 71-75: feed the packed classes of three chars and reset
Group(s) ==
    IF GroupFull(s.clscount)
    THEN [c |-> PolyMod(s.c, s.cls), cls |-> 0, clscount |-> 0]
    ELSE s

\* lines 77-79: feed the classes left over
TailFeed(s) ==
    IF s.clscount > 0 THEN [s EXCEPT !.c = PolyMod(s.c, s.cls)] ELSE s

\* the range (0..8) of line 80
FLUSH_FEEDS == 8

\* line 80: (0..8).for_each(|_| c = poly_mod(c, 0))
RECURSIVE Flush(_, _)
Flush(a, n) == IF n = 0 THEN a ELSE Flush(PolyMod(a, 0), n - 1)

\* the final xor left out
FinalXor_Skipped(a) == a

\* line 81: c ^= 1
FinalXor(a) == Xor(a, BIT0)

\* the range 0..8 of line 84
CHECKSUM_LEN == 8

\* the literal 31 of line 88
MASK5 == U64Of(31)

\* the digit taken without the & 31
Digit_Unmasked(a, k) == NatOf(Shr(a, 5 * (7 - k)))

\* line 88: ((c >> (5 * (7 - j))) & 31) as usize
Digit(a, k) == NatOf(And(Shr(a, 5 * (7 - k)), MASK5))

\* the digit rendered with the input alphabet
Symbol_FromInput(a, k) == Nth(INPUT_CHARSET, Digit(a, k))

\* lines 86-88: CHECKSUM_CHARSET.chars().nth(...), an Option
Symbol(a, k) == Nth(CHECKSUM_CHARSET, Digit(a, k))

\* the one element of a Some
Unwrap(o) == CHOOSE x \in o : TRUE

\* the values get_checksum returns, and the panic of unwrap on None
Ok(s) == [tag |-> "Ok", val |-> s]
Err(ch) == [tag |-> "InvalidDescriptorCharacter", val |-> << ch >>]
Panic == [tag |-> "panic", val |-> << >>]
Pending == [tag |-> "pending", val |-> << >>]

\* lines 64-76 from the k-th char on: the locals after the loop, or the
\* char on which the lookup of line 67 failed and returned
RECURSIVE Loop(_, _, _)
Loop(d, k, s) ==
    IF k > Len(d) THEN [bad |-> << >>, s |-> s]
    ELSE LET p == Find(INPUT_CHARSET, d[k])
         IN  IF p = {} THEN [bad |-> << d[k] >>, s |-> s]
             ELSE Loop(d, k + 1, Group(Feed(s, Unwrap(p))))

\* lines 83-91 from j = k on: the chars pushed, or the panic of unwrap
RECURSIVE Render(_, _, _)
Render(a, k, out) ==
    IF k = CHECKSUM_LEN THEN Ok(out)
    ELSE IF Symbol(a, k) = {} THEN Panic
    ELSE Render(a, k + 1, Append(out, Unwrap(Symbol(a, k))))

\* pub fn get_checksum(desc: &str) -> Result<String, Error>
GetChecksum(d) ==
    LET l == Loop(d, 1, Start)
    IN  IF l.bad # << >> THEN Err(l.bad[1])
        ELSE Render(FinalXor(Flush(TailFeed(l.s).c, FLUSH_FEEDS)), 0, << >>)

-----------------------------------------------------------------------------
(* src/wallet/address_validator.rs *)

\* enum AddressValidatorError; Message carries a String
AddressValidatorError ==
    {"UserRejected", "ConnectionError", "TimeoutError", "InvalidScript", "Message(denied)"}

\* fn validate of the implementations of the trait: PrintAddressAndContinue
\* of the module documentation returns Ok(()), TestValidator of the tests
\* returns Err(InvalidScript); the other two stand for implementations that
\* fail with other errors
Validate(v) ==
    CASE v = "PrintAddressAndContinue" -> "Ok"
      [] v = "TestValidator" -> "InvalidScript"
      [] v = "RejectingValidator" -> "UserRejected"
      [] v = "MessageValidator" -> "Message(denied)"

\* the validators a wallet is given
Validators ==
    {"PrintAddressAndContinue", "TestValidator", "RejectingValidator", "MessageValidator"}

\* no address generation has been asked for
NoGen == [kind |-> "none", next |-> 1, result |-> "pending"]

-----------------------------------------------------------------------------
(* The inputs *)

\* chars outside INPUT_CHARSET: tab and u-umlaut
InvalidChars == {9, 252}

\* "0" (position 0), "~" (position 63) and " " (position 94): one char of
\* each class
SampleChars == {48, 126, 32} \cup InvalidChars

AllChars == {INPUT_CHARSET[k] : k \in 1 .. Len(INPUT_CHARSET)} \cup InvalidChars

\* the descriptor of the specification's known vector
TestDescriptor ==
    << 119, 112, 107, 104,  40, 116, 112, 117,  98,  68,  54,  78, 122,  86,  98, 107,
       114,  89, 104,  90,  52,  88, 102, 101, 114, 109,  55,  80, 122,  52,  86, 110,
       106, 100,  99,  68,  80,  70, 121, 106,  86, 117,  53,  75,  52, 105,  90,  88,
        81,  52, 112,  86,  78,  56,  67, 107, 115,  52, 112,  72,  86, 111, 119,  84,
        66,  88,  66,  75,  82, 104,  88,  54,  52, 112, 107,  82, 121,  74,  90,  74,
        78,  53, 120,  65,  75, 106,  52,  85,  68,  78, 110,  76,  80,  98,  53, 112,
        50, 115,  83,  75,  88, 104, 101, 119, 111,  89, 120,  53,  71,  98,  84, 100,
        85,  70,  87, 113,  47,  52,  52,  39,  47,  48,  39,  47,  48,  39,  47,  48,
        47,  42,  41 >>

RECURSIVE SeqsUpTo(_, _)
SeqsUpTo(S, n) ==
    IF n = 0 THEN {<< >>}
    ELSE LET shorter == SeqsUpTo(S, n - 1)
         IN  shorter \cup {Append(s, x) : s \in {t \in shorter : Len(t) = n - 1}, x \in S}

\* two longer descriptors, of 11 and of 12 chars: "sh(wpkh(A))" and "multi(2,K,L)"
LongerDescriptors ==
    {<< 115, 104, 40, 119, 112, 107, 104, 40, 65, 41, 41 >>,
     << 109, 117, 108, 116, 105, 40, 50, 44, 75, 44, 76, 41 >>}

\* every descriptor of up to MaxLen sample chars, every char alone, and the
\* longer ones
Descriptors ==
    SeqsUpTo(SampleChars, MaxLen) \cup {<< ch >> : ch \in AllChars} \cup LongerDescriptors

\* the known vector, and the same with the u-umlaut for its last char
Vectors == {TestDescriptor, [TestDescriptor EXCEPT ![Len(TestDescriptor)] = 252]}

-----------------------------------------------------------------------------
(* get_checksum, step by step *)

Locals == [c |-> c, cls |-> cls, clscount |-> clscount]

Call(op, a, val) == [op |-> op, val |-> val, c0 |-> NatOf(TopOf(a))]

InitChecksum(ds) ==
    /\ desc \in ds
    /\ pc = "loop"
    /\ i = 1
    /\ c = Start.c
    /\ cls = Start.cls
    /\ clscount = Start.clscount
    /\ pos = {}
    /\ flushed = 0
    /\ j = 0
    /\ chars = << >>
    /\ result = Pending
    /\ trace = << >>

InitWallet ==
    /\ validators = << >>
    /\ gen = NoGen
    /\ polled = << >>

Init == InitChecksum(Descriptors) /\ InitWallet

\* lines 64-70 for a char of the alphabet
TakeChar ==
    /\ pc = "loop"
    /\ i <= Len(desc)
    /\ Find(INPUT_CHARSET, desc[i]) # {}
    /\ LET p == Unwrap(Find(INPUT_CHARSET, desc[i]))
           s == Feed(Locals, p)
       IN  /\ pos' = {p}
           /\ c' = s.c
           /\ cls' = s.cls
           /\ clscount' = s.clscount
           /\ trace' = Append(trace, Call("value", c, Low5(p)))
    /\ i' = i + 1
    /\ pc' = "group"
    /\ UNCHANGED << desc, flushed, j, chars, result, wvars >>

\* lines 65-67 for any other char: the ? returns the error
RejectChar ==
    /\ pc = "loop"
    /\ i <= Len(desc)
    /\ Find(INPUT_CHARSET, desc[i]) = {}
    /\ pos' = {}
    /\ result' = Err(desc[i])
    /\ pc' = "done"
    /\ UNCHANGED << desc, i, c, cls, clscount, flushed, j, chars, trace, wvars >>

\* lines 71-75
GroupStep ==
    /\ pc = "group"
    /\ LET s == Group(Locals)
       IN  /\ c' = s.c
           /\ cls' = s.cls
           /\ clscount' = s.clscount
    /\ trace' = IF GroupFull(clscount) THEN Append(trace, Call("class", c, cls)) ELSE trace
    /\ pc' = "loop"
    /\ UNCHANGED << desc, i, pos, flushed, j, chars, result, wvars >>

\* the loop is over; lines 77-79
TailStep ==
    /\ pc = "loop"
    /\ i > Len(desc)
    /\ c' = TailFeed(Locals).c
    /\ trace' = IF clscount > 0 THEN Append(trace, Call("tail", c, cls)) ELSE trace
    /\ pc' = "flush"
    /\ UNCHANGED << desc, i, cls, clscount, pos, flushed, j, chars, result, wvars >>

\* one iteration of line 80
FlushStep ==
    /\ pc = "flush"
    /\ flushed < FLUSH_FEEDS
    /\ c' = Flush(c, 1)
    /\ flushed' = flushed + 1
    /\ trace' = Append(trace, Call("flush", c, 0))
    /\ UNCHANGED << desc, pc, i, cls, clscount, pos, j, chars, result, wvars >>

\* line 81, then line 83
XorStep ==
    /\ pc = "flush"
    /\ flushed = FLUSH_FEEDS
    /\ c' = FinalXor(c)
    /\ trace' = Append(trace, Call("xor", c, 1))
    /\ pc' = "render"
    /\ UNCHANGED << desc, i, cls, clscount, pos, flushed, j, chars, result, wvars >>

\* one iteration of lines 84-91
RenderStep ==
    /\ pc = "render"
    /\ j < CHECKSUM_LEN
    /\ IF Symbol(c, j) = {}
       THEN /\ result' = Panic
            /\ pc' = "done"
            /\ UNCHANGED << j, chars >>
       ELSE /\ chars' = Append(chars, Unwrap(Symbol(c, j)))
            /\ j' = j + 1
            /\ UNCHANGED << pc, result >>
    /\ UNCHANGED << desc, i, c, cls, clscount, pos, flushed, trace, wvars >>

\* line 93
Return ==
    /\ pc = "render"
    /\ j = CHECKSUM_LEN
    /\ result' = Ok(chars)
    /\ pc' = "done"
    /\ UNCHANGED << desc, i, c, cls, clscount, pos, flushed, j, chars, trace, wvars >>

Next ==
    \/ TakeChar
    \/ RejectChar
    \/ GroupStep
    \/ TailStep
    \/ FlushStep
    \/ XorStep
    \/ RenderStep
    \/ Return

Spec == Init /\ [][Next]_vars

\* the calls on the known vectors
InitVectors == InitChecksum(Vectors) /\ InitWallet
SpecVectors == InitVectors /\ [][Next]_vars

\* get_checksum is straight-line sequential code: a call that can take a
\* step takes it
FairSpec == Spec /\ WF_vars(Next)

-----------------------------------------------------------------------------
(* The wallet's validator chain, as the documentation of the module and    *)
(* of the trait describes it: the wallet itself is not in these files      *)

\* Wallet::add_address_validator: attach v after the validators attached
AddAddressValidator(v) ==
    /\ gen.kind = "none"
    /\ Len(validators) < MaxValidators
    /\ validators' = Append(validators, v)
    /\ UNCHANGED << gen, polled, csvars >>

\* an address is generated: "external" by Wallet::get_new_address,
\* "internal" for the change of Wallet::create_tx
StartGeneration(kind) ==
    /\ gen.kind = "none"
    /\ gen' = [NoGen EXCEPT !.kind = kind]
    /\ UNCHANGED << validators, polled, csvars >>

\* the Result of validate dropped: the next validator is due whatever it was
AfterPoll_Ignore(g, v) == [g EXCEPT !.next = g.next + 1]

\* the generation g after polling validator v: on Ok the next one is due,
\* an error ends the generation and is what the caller gets
AfterPoll(g, v) ==
    IF Validate(v) = "Ok"
    THEN [g EXCEPT !.next = g.next + 1]
    ELSE [g EXCEPT !.result = Validate(v)]

\* the next attached validator is polled
Poll ==
    /\ gen.kind # "none"
    /\ gen.result = "pending"
    /\ gen.next <= Len(validators)
    /\ gen' = AfterPoll(gen, validators[gen.next])
    /\ polled' = Append(polled, gen.next)
    /\ UNCHANGED << validators, csvars >>

\* all the validators completed successfully: the address is returned
Deliver ==
    /\ gen.kind # "none"
    /\ gen.result = "pending"
    /\ gen.next > Len(validators)
    /\ gen' = [gen EXCEPT !.result = "Address"]
    /\ UNCHANGED << validators, polled, csvars >>

InitIdle == InitChecksum({<< >>}) /\ InitWallet

NextWallet ==
    \/ \E v \in Validators : AddAddressValidator(v)
    \/ \E kind \in {"external", "internal"} : StartGeneration(kind)
    \/ Poll
    \/ Deliver

SpecWallet == InitIdle /\ [][NextWallet]_vars

-----------------------------------------------------------------------------
(* The properties *)

\* the chars of the two alphabets, read off the constants
InputChars == {INPUT_CHARSET[k] : k \in 1 .. Len(INPUT_CHARSET)}
ChecksumChars == {CHECKSUM_CHARSET[k] : k \in 1 .. Len(CHECKSUM_CHARSET)}

\* the position code of a char of the input alphabet, counted in the constant
CodeOf(ch) == (CHOOSE k \in 1 .. Len(INPUT_CHARSET) : INPUT_CHARSET[k] = ch) - 1

\* all the chars of d are in the input alphabet
Valid(d) == \A k \in 1 .. Len(d) : d[k] \in InputChars

\* the leftmost char of d outside the input alphabet
FirstInvalid(d) ==
    d[CHOOSE k \in 1 .. Len(d) : d[k] \notin InputChars /\ \A m \in 1 .. (k - 1) : d[m] \in InputChars]

Returned == pc = "done"

\* C1 as stated: the checksum of the known vector is "tqz0nc62"
C1_KnownVector_Original ==
    (Returned /\ desc = TestDescriptor) =>
        result = Ok(<< 116, 113, 122, 48, 110, 99, 54, 50 >>)

\* C1, amended: get_checksum of the known vector's descriptor returns Ok
\* with the checksum "pxvtu8dj"
C1_KnownVector ==
    (Returned /\ desc = TestDescriptor) =>
        result = Ok(<< 112, 120, 118, 116, 117, 56, 100, 106 >>)

C1_Witness == Returned /\ desc = TestDescriptor /\ result.tag = "Ok"

\* C2: a descriptor with a char outside the input alphabet never gets a
\* checksum, and the call returns InvalidDescriptorCharacter with the
\* leftmost such char
C2_InvalidCharacter ==
    ~Valid(desc) =>
        /\ result.tag # "Ok"
        /\ Returned => result = Err(FirstInvalid(desc))

\* a valid char, then two different invalid ones: the first of them is reported
C2_Witness ==
    /\ Returned
    /\ Len(desc) >= 3
    /\ desc[1] \in InputChars
    /\ desc[2] \notin InputChars
    /\ desc[3] \notin InputChars
    /\ desc[3] # desc[2]
    /\ result = Err(desc[2])

\* C3: a successful call returns exactly 8 chars, each one of the 32 chars
\* of CHECKSUM_CHARSET
C3_OutputShape ==
    (Returned /\ result.tag = "Ok") =>
        /\ Len(result.val) = 8
        /\ \A k \in 1 .. Len(result.val) : result.val[k] \in ChecksumChars
        /\ Cardinality(ChecksumChars) = 32

C3_Witness == Returned /\ result.tag = "Ok" /\ Len(desc) = 3 /\ Len(result.val) = 8

\* C4: a call on a descriptor made of chars of the input alphabet never
\* fails or panics, and it ends, returning Ok
C4_OnlyFailure ==
    /\ [](Valid(desc) => result.tag \in {"pending", "Ok"})
    /\ (Valid(desc) ~> (Returned /\ result.tag = "Ok"))

C4_Witness == Returned /\ desc = << >> /\ result.tag = "Ok" /\ Len(trace) = 9

\* C5 as stated: the alphabet has 94 symbols, so every position code found
\* is in 0..93
C5_Alphabet_Original ==
    pc = "group" => \A p \in pos : p \in 0 .. 93

\* C5, amended: the input alphabet is a sequence of exactly 95 distinct
\* symbols, and the position code found for an accepted char is its place in
\* that sequence, in 0..94, with value in 0..31 and class digit in 0..2
C5_Alphabet ==
    /\ Len(INPUT_CHARSET) = 95
    /\ Cardinality(InputChars) = 95
    /\ pc = "group" =>
        /\ pos # {}
        /\ \A p \in pos :
            /\ p \in 0 .. 94
            /\ INPUT_CHARSET[p + 1] = desc[i - 1]
            /\ Low5(p) \in 0 .. 31
            /\ Class(p) \in 0 .. 2

\* the last symbol of the alphabet, the space, is accepted with code 94
C5_Witness == pc = "group" /\ pos = {94} /\ desc[i - 1] = 32

\* d with the char at k replaced by ch
Subst(d, k, ch) == [d EXCEPT ![k] = ch]

\* C6: replacing any one char of a valid descriptor by another char of the
\* input alphabet changes the checksum
C6_Sensitivity ==
    (Returned /\ result.tag = "Ok") =>
        \A k \in 1 .. Len(desc) : \A ch \in InputChars \ {desc[k]} :
            GetChecksum(Subst(desc, k, ch)) # result

\* "0" and "I" differ in the class digit alone, "0" and "1" in the value alone
C6_Witness ==
    /\ Returned
    /\ result.tag = "Ok"
    /\ desc = << 48, 126, 32, 48 >>
    /\ GetChecksum(<< 73, 126, 32, 48 >>).tag = "Ok"
    /\ GetChecksum(<< 73, 126, 32, 48 >>) # result
    /\ GetChecksum(<< 49, 126, 32, 48 >>) # result

\* the validators that fail, by their place in the wallet's list
Failing == {k \in 1 .. Len(validators) : Validate(validators[k]) # "Ok"}

\* C7: the validators are polled in the order attached; the first failure
\* ends the generation with that validator's error and nothing after it is
\* polled; with no failure the generation gives an address
C7_ValidatorChain ==
    /\ gen.result \in {"pending", "Address"} \cup AddressValidatorError
    /\ polled = [k \in 1 .. Len(polled) |-> k]
    /\ Len(polled) <= Len(validators)
    /\ \A k \in 1 .. (Len(polled) - 1) : k \notin Failing
    /\ gen.result # "pending" =>
        IF Failing = {}
        THEN gen.result = "Address" /\ Len(polled) = Len(validators)
        ELSE \E f \in Failing :
                /\ \A k \in Failing : f <= k
                /\ gen.result = Validate(validators[f])
                /\ Len(polled) = f

\* a passing validator, a failing one, then one failing with another error
C7_Witness ==
    /\ validators = << "PrintAddressAndContinue", "TestValidator", "RejectingValidator" >>
    /\ gen.kind = "internal"
    /\ gen.result = "InvalidScript"
    /\ polled = << 1, 2 >>

\* the calls of poly_mod and the final xor of a call on a descriptor of n
\* chars, by call site, in order: the loop's feeds go value, value, value,
\* class; then the partial class feed if n mod 3 # 0; then 8 flushes; then
\* the xor
LoopCalls(n) == n + (n \div 3)
CadenceLen(n) == LoopCalls(n) + (IF n % 3 # 0 THEN 1 ELSE 0) + 8 + 1
Cadence(n) ==
    [e \in 1 .. CadenceLen(n) |->
        IF e <= LoopCalls(n) THEN (IF e % 4 = 0 THEN "class" ELSE "value")
        ELSE IF e = CadenceLen(n) THEN "xor"
        ELSE IF e >= CadenceLen(n) - 8 THEN "flush"
        ELSE "tail"]

Ops(tr) == [k \in 1 .. Len(tr) |-> tr[k].op]
IsPrefix(s, t) == Len(s) <= Len(t) /\ \A k \in 1 .. Len(s) : s[k] = t[k]

\* C8: on a valid descriptor of L chars the calls happen in the order value
\* feed per char, class feed after every third char, one partial class feed
\* iff L mod 3 # 0, eight feeds of 0, then the one xor: L + ceil(L/3) + 8
\* calls of poly_mod in all
C8_Cadence ==
    Valid(desc) =>
        /\ IsPrefix(Ops(trace), Cadence(Len(desc)))
        /\ \A k \in 1 .. Len(trace) :
            /\ trace[k].op = "flush" => trace[k].val = 0
            /\ trace[k].op = "value" =>
                trace[k].val = CodeOf(desc[Cardinality({m \in 1 .. k : trace[m].op = "value"})]) % 32
        /\ pc \in {"render", "done"} =>
            /\ Ops(trace) = Cadence(Len(desc))
            /\ Cardinality({k \in 1 .. Len(trace) : trace[k].op # "xor"})
                 = Len(desc) + ((Len(desc) + 2) \div 3) + 8

\* four chars: a full group's class feed, then a partial one
C8_Witness ==
    /\ Returned
    /\ Len(desc) = 4
    /\ Valid(desc)
    /\ Ops(trace) = << "value", "value", "value", "class", "value", "tail",
                       "flush", "flush", "flush", "flush", "flush", "flush", "flush", "flush",
                       "xor" >>

\* C9: the accumulator stays below 2^40, every val given to poly_mod is in
\* 0..31 (packed classes in 0..26), and every c0 is in 0..31
C9_NoOverflow ==
    /\ Below(c, 40)
    /\ \A k \in 1 .. Len(trace) :
        trace[k].op # "xor" =>
            /\ trace[k].val \in 0 .. 31
            /\ trace[k].c0 \in 0 .. 31
            /\ trace[k].op \in {"class", "tail"} => trace[k].val \in 0 .. 26

\* three chars of class 2 pack to 26, the accumulator's bit 39 is set, and a
\* call found the top bit of c0 set
C9_Witness ==
    /\ 39 \in c
    /\ \E k \in 1 .. Len(trace) : trace[k].op = "class" /\ trace[k].val = 26
    /\ \E k \in 1 .. Len(trace) : trace[k].c0 > 15

\* the base-3 packing of the class digits of the n chars of d that end at k
RECURSIVE Packed(_, _, _)
Packed(d, k, n) ==
    IF n = 0 THEN 0 ELSE 3 * Packed(d, k - 1, n - 1) + (CodeOf(d[k]) \div 32)

\* C10: when k chars have been processed, clscount = k mod 3, in {0, 1, 2},
\* cls packs the class digits of the last k mod 3 chars, and so is 0
\* whenever clscount is
C10_ClassReset ==
    pc = "loop" =>
        /\ clscount \in {0, 1, 2}
        /\ clscount = 0 => cls = 0
        /\ clscount = (i - 1) % 3
        /\ cls = Packed(desc, i - 1, (i - 1) % 3)

\* after a full group, which reset both, and one more char of class 2
C10_Witness == pc = "loop" /\ i = 5 /\ clscount = 1 /\ cls = 2 /\ Len(trace) = 5

====
